---- MODULE Spec2Model ----
(***************************************************************************)
(* MultiFileAppendable (embedded/appendable/multiapp/multi_app.go): a      *)
(* segmented append-only byte log over a directory of numbered segment     *)
(* files, an LRU cache of segment handles and one current (tail) handle.   *)
(*                                                                         *)
(* The coordinator is translated from multi_app.go.  The two collaborators *)
(* it imports, singleapp.AppendableFile (the segment handle) and           *)
(* cache.LRUCache, are modelled from their contracts in the specification  *)
(* (sections 2 and 4.1).                                                   *)
(***************************************************************************)
EXTENDS Integers, Sequences, FiniteSets, TLC

VARIABLES
    disk,            \* the directory: segment id -> file (header metadata, payload)
    handles,         \* the heap of singleapp.AppendableFile objects
    appendables,     \* mf.appendables: the LRU cache, least recently used first
    cacheSize,       \* the capacity of mf.appendables (opts.maxOpenedFiles)
    currAppID,       \* mf.currAppID
    currApp,         \* mf.currApp: a handle id
    readOnly,        \* mf.readOnly
    fileSize,        \* mf.fileSize
    closed,          \* mf.closed
    ret,             \* the last call: its name, arguments and results
    hist             \* history of the calls made so far (for stating the claims)

vars == <<disk, handles, appendables, cacheSize, currAppID, currApp,
          readOnly, fileSize, closed, ret, hist>>

-----------------------------------------------------------------------------
(* Bounds of the model *)

MaxSize == 3         \* logical offsets are 0..MaxSize-1: the log never grows longer
MaxLeak == 1         \* open handle objects that nothing refers to
MaxLen == 3          \* longest buffer passed to Append and ReadAt
MaxFail == 2         \* a call may be told that its k-th handle close fails, k <= MaxFail

FileSizes == {1, 2}          \* values of opts.fileSize
CacheSizes == {1, 2}         \* values of opts.maxOpenedFiles
Metas == {10}                \* values of opts.metadata when the log is created
ReopenMetas == {10, 11}      \* values of opts.metadata when it is opened again
Levels == {1}                \* values of opts.compressionLevel

MinFileSize == CHOOSE m \in FileSizes : \A x \in FileSizes : m <= x
MaxSegId == (MaxSize - 1) \div MinFileSize
SegIds == 0..MaxSegId
MaxCache == CHOOSE m \in CacheSizes : \A x \in CacheSizes : x <= m
\* addresses of handle objects: enough for the tail, a full cache, the leaked
\* objects and the objects one call opens and closes
HandleIds == 1..(MaxCache + MaxLeak + MaxSegId + 3)
MaxFileSize == CHOOSE m \in FileSizes : \A x \in FileSizes : x <= m
Offsets == 0..(MaxSize - 1)

-----------------------------------------------------------------------------
(* Errors *)

OK == "nil"
ErrIllegalArguments == "illegal arguments"
ErrAlreadyClosed == "multi-appendable already closed"
ErrReadOnly == "cannot append when openned in read-only mode"
ErrKeyNotFound == "key not found"
EOF == "EOF"
ErrNotExist == "file does not exist"
ErrHandleClosed == "single-file appendable already closed"
ErrHandleReadOnly == "single-file appendable is read-only"
ErrIO == "i/o error"

(* appendable.NoCompression; the coordinator only compares the tail's format
   with it.  Every store of the model is created without compression: the
   payload encoding of a compressed segment is not part of the source. *)
NoCompression == 0

-----------------------------------------------------------------------------
(* Buffers.  The caller appends bytes that name the logical offset it expects
   them at: Buf(o, n) is the n bytes ByteAt(o), ByteAt(o + 1), ...; 0 is the
   byte a file hole reads as. *)

ByteAt(o) == o + 1

Buf(o, n) == [i \in 1..n |-> ByteAt(o + i - 1)]

minInt(a, b) == IF a <= b THEN a ELSE b

-----------------------------------------------------------------------------
(* Segment files and segment handles (singleapp.AppendableFile) *)

NoMeta == [FILE_SIZE |-> 0, WRAPPED_METADATA |-> 0, compression |-> NoCompression,
           level |-> 0]
NoFile == [exists |-> FALSE, meta |-> NoMeta, data |-> <<>>]
EmptyDir == [s \in SegIds |-> NoFile]

FreeHandle == [state |-> "free", seg |-> 0, off |-> 0, ro |-> FALSE, meta |-> NoMeta]

IsOpen(hs, h) == hs[h].state = "open"

FreeIds(hs) == {h \in HandleIds : hs[h].state = "free"}

\* bytes written at cursor off of a file: overwrite in place, extend, and
\* leave a hole of zero bytes when the cursor is past the end
WriteAt(data, off, bs) ==
    LET newLen == IF off + Len(bs) > Len(data) THEN off + Len(bs) ELSE Len(data)
    IN [i \in 1..newLen |->
            IF i > off /\ i <= off + Len(bs) THEN bs[i - off]
            ELSE IF i <= Len(data) THEN data[i]
            ELSE 0]

\* singleapp.Open: an absent file is created with the header given in the
\* options unless the handle is read-only; an existing file keeps its header
\* and the handle's write cursor starts at the end of its payload.
\* st.full: the call needs more addresses than the model has.
SingleOpen(st, seg, ro, meta) ==
    IF ~st.disk[seg].exists /\ ro
    THEN [st |-> st, h |-> 0, err |-> ErrNotExist]
    ELSE IF FreeIds(st.handles) = {}
    THEN [st |-> [st EXCEPT !.full = TRUE], h |-> 0, err |-> ErrIO]
    ELSE
        LET h == CHOOSE x \in FreeIds(st.handles) : \A y \in FreeIds(st.handles) : x <= y
            file == IF st.disk[seg].exists THEN st.disk[seg]
                    ELSE [exists |-> TRUE, meta |-> meta, data |-> <<>>]
            obj == [state |-> "open", seg |-> seg, off |-> Len(file.data),
                    ro |-> ro, meta |-> file.meta]
        IN [st |-> [st EXCEPT !.disk[seg] = file, !.handles[h] = obj],
            h |-> h, err |-> OK]

\* AppendableFile.Append: writes bs at the cursor and advances it
HAppend(st, h, bs) ==
    LET obj == st.handles[h] IN
    IF obj.state # "open" THEN [st |-> st, off |-> 0, n |-> 0, err |-> ErrHandleClosed]
    ELSE IF obj.ro THEN [st |-> st, off |-> 0, n |-> 0, err |-> ErrHandleReadOnly]
    ELSE IF Len(bs) = 0 THEN [st |-> st, off |-> 0, n |-> 0, err |-> ErrIllegalArguments]
    ELSE [st |-> [st EXCEPT !.disk[obj.seg].data = WriteAt(@, obj.off, bs),
                            !.handles[h].off = obj.off + Len(bs)],
          off |-> obj.off, n |-> Len(bs), err |-> OK]

\* AppendableFile.ReadAt: up to n bytes from in-file offset off; EOF when
\* fewer than n bytes are left
HReadAt(st, h, n, off) ==
    LET obj == st.handles[h]
        data == st.disk[obj.seg].data
        rn == IF off >= Len(data) THEN 0 ELSE minInt(n, Len(data) - off)
    IN IF obj.state # "open" THEN [bs |-> <<>>, err |-> ErrHandleClosed]
       ELSE [bs |-> SubSeq(data, off + 1, off + rn),
             err |-> IF rn < n THEN EOF ELSE OK]

\* AppendableFile.Size
HSize(st, h) ==
    IF st.handles[h].state # "open" THEN [size |-> 0, err |-> ErrHandleClosed]
    ELSE [size |-> Len(st.disk[st.handles[h].seg].data), err |-> OK]

\* AppendableFile.Offset
HOffset(st, h) == st.handles[h].off

\* AppendableFile.SetOffset
HSetOffset(st, h, off) ==
    IF st.handles[h].state # "open" THEN [st |-> st, err |-> ErrHandleClosed]
    ELSE IF st.handles[h].ro THEN [st |-> st, err |-> ErrHandleReadOnly]
    ELSE [st |-> [st EXCEPT !.handles[h].off = off], err |-> OK]

\* AppendableFile.Flush and AppendableFile.Sync
HFlush(st, h) ==
    IF st.handles[h].state # "open" THEN ErrHandleClosed
    ELSE IF st.handles[h].ro THEN ErrHandleReadOnly
    ELSE OK

\* AppendableFile.Close.  st.ncl counts the handle closes of the running call;
\* the close numbered failAt fails with an i/o error and leaves the handle open.
HClose(st, h, failAt) ==
    LET k == st.ncl + 1
        st1 == [st EXCEPT !.ncl = k, !.closeCalls = Append(@, h)]
    IN IF st.handles[h].state # "open" THEN [st |-> st1, err |-> ErrHandleClosed]
       ELSE IF k = failAt THEN [st |-> st1, err |-> ErrIO]
       ELSE [st |-> [st1 EXCEPT !.handles[h].state = "closed"], err |-> OK]

-----------------------------------------------------------------------------
(* cache.LRUCache: a sequence of [key, value], least recently used first *)

CacheKeys(c) == {c[i].key : i \in 1..Len(c)}
CacheValues(c) == {c[i].value : i \in 1..Len(c)}
CacheIndex(c, k) == CHOOSE i \in 1..Len(c) : c[i].key = k
CacheWithout(c, i) == SubSeq(c, 1, i - 1) \o SubSeq(c, i + 1, Len(c))

\* LRUCache.Get: the value and the cache with the entry moved to the
\* most-recently-used end, or ErrKeyNotFound
CacheGet(c, k) ==
    IF k \in CacheKeys(c)
    THEN LET i == CacheIndex(c, k)
         IN [cache |-> Append(CacheWithout(c, i), c[i]), value |-> c[i].value, err |-> OK]
    ELSE [cache |-> c, value |-> 0, err |-> ErrKeyNotFound]

\* LRUCache.Put: inserts or updates; an insertion over the capacity evicts the
\* least recently used entry and returns its value (0: nothing evicted)
CachePut(c, cap, k, v) ==
    IF k \in CacheKeys(c)
    THEN [cache |-> Append(CacheWithout(c, CacheIndex(c, k)), [key |-> k, value |-> v]),
          ejected |-> 0]
    ELSE LET c1 == Append(c, [key |-> k, value |-> v])
         IN IF Len(c1) > cap
            THEN [cache |-> Tail(c1), ejected |-> Head(c1).value]
            ELSE [cache |-> c1, ejected |-> 0]

-----------------------------------------------------------------------------
(* Segment file names *)

RECURSIVE Digits(_)
Digits(n) == IF n < 10 THEN <<n>> ELSE Append(Digits(n \div 10), n % 10)

\* appendableName: fmt.Sprintf("%08d.%s", appID, ext); the name is modelled by
\* the digits of its stem
appendableName(appID) ==
    LET ds == Digits(appID)
    IN IF Len(ds) >= 8 THEN ds ELSE [i \in 1..(8 - Len(ds)) |-> 0] \o ds

\* appendableID
appendableID(off, fsz) == off \div fsz

\* strconv.ParseInt of the stem of a file name, base 10
RECURSIVE ParseInt(_)
ParseInt(ds) ==
    IF Len(ds) = 0 THEN 0
    ELSE 10 * ParseInt(SubSeq(ds, 1, Len(ds) - 1)) + ds[Len(ds)]

\* the order of the entries ioutil.ReadDir returns (sorted by file name)
RECURSIVE LexLess(_, _)
LexLess(a, b) ==
    IF Len(a) = 0 THEN Len(b) > 0
    ELSE IF Len(b) = 0 THEN FALSE
    ELSE IF Head(a) # Head(b) THEN Head(a) < Head(b)
    ELSE LexLess(Tail(a), Tail(b))

\* ioutil.ReadDir: the names of the files of the directory
ReadDir(d) == {appendableName(s) : s \in {x \in SegIds : d[x].exists}}

\* an Open that takes the first entry of the listing
FirstName(names) == CHOOSE a \in names : \A b \in names : a = b \/ LexLess(a, b)

\* fis[len(fis)-1].Name()
LastName(names) == CHOOSE a \in names : \A b \in names : a = b \/ LexLess(b, a)

-----------------------------------------------------------------------------
(* The coordinator.  An operation is computed on a record st of the fields it
   reads and writes:
     disk, handles, cache (mf.appendables), currAppID, currApp,
     ncl (handle closes made by the call), closeCalls (the handles they were
     made on, in order), full (the call needed more handles than MaxHandles) *)

St == [disk |-> disk, handles |-> handles, cache |-> appendables,
       currAppID |-> currAppID, currApp |-> currApp,
       ncl |-> 0, closeCalls |-> <<>>, full |-> FALSE]

\* an Open that keeps the segment size of its options
OptionFileSize(meta, opts) == opts.fileSize

\* the segment size Open keeps (line 124): the FILE_SIZE of the tail's header
HeaderFileSize(meta, opts) == meta.FILE_SIZE

\* Open, from the result o of singleapp.Open on (lines 114-137)
OpenOpened(o, opts) ==
    IF o.err # OK THEN [st |-> o.st, err |-> o.err, fileSize |-> 0]
    ELSE [st |-> [o.st EXCEPT !.currApp = o.h], err |-> OK,
          fileSize |-> HeaderFileSize(o.st.handles[o.h].meta, opts)]

\* Open, from the listing of the directory on.  opts: readOnly, fileSize,
\* metadata, maxOpenedFiles.  The new object starts with a heap of its own.
Open(d, opts) ==
    LET fis == ReadDir(d)
        m == [FILE_SIZE |-> opts.fileSize, WRAPPED_METADATA |-> opts.metadata,
              compression |-> NoCompression, level |-> opts.compressionLevel]
        filename == IF fis # {} THEN LastName(fis)
                    ELSE appendableName(appendableID(0, opts.fileSize))
        id == IF fis # {} THEN ParseInt(filename) ELSE 0
        st0 == [disk |-> d, handles |-> [h \in HandleIds |-> FreeHandle], cache |-> <<>>,
                currAppID |-> id, currApp |-> 0,
                ncl |-> 0, closeCalls |-> <<>>, full |-> FALSE]
    IN OpenOpened(SingleOpen(st0, ParseInt(filename), opts.readOnly, m), opts)

\* openAppendable: the options repeat the tail's header
openAppendable(st, appname) ==
    SingleOpen(st, ParseInt(appname), readOnly, st.handles[st.currApp].meta)

\* mf.appendables.Put(id, h), then Close of the handle Put ejects, as Append
\* (lines 259-270), SetOffset (341-351) and appendableFor (382-392) do it
PutAndClose(st, id, h, failAt) ==
    LET p == CachePut(st.cache, cacheSize, id, h)
    IN IF p.ejected # 0
       THEN HClose([st EXCEPT !.cache = p.cache], p.ejected, failAt)
       ELSE [st |-> [st EXCEPT !.cache = p.cache], err |-> OK]

\* the rollover of Append, from the result o of openAppendable on (lines
\* 272-280): the new segment becomes the tail at offset 0
RolloverOpened(o) ==
    IF o.err # OK THEN [st |-> o.st, err |-> o.err]
    ELSE [st |-> [HSetOffset(o.st, o.h, 0).st EXCEPT !.currApp = o.h], err |-> OK]

\* the rollover of Append, from the result c of Put and Close on (lines
\* 264-272): currAppID is incremented and the next segment is opened
RolloverCached(c) ==
    IF c.err # OK THEN [st |-> c.st, err |-> c.err]
    ELSE RolloverOpened(openAppendable([c.st EXCEPT !.currAppID = @ + 1],
                                       appendableName(c.st.currAppID + 1)))

\* the rollover of Append (lines 258-281): the tail goes into the cache, an
\* ejected handle is closed, the next segment is opened at offset 0
Rollover(st, failAt) ==
    RolloverCached(PutAndClose(st, st.currAppID, st.currApp, failAt))

\* the chunk Append writes next (lines 283-289)
ChunkSize(st, available, rest) ==
    IF st.handles[st.currApp].meta.compression = NoCompression
    THEN minInt(available, rest)
    ELSE rest

\* an Append that returns the in-file offset of the first chunk
StartOffsetInFile(st, offn) == offn

\* the offset Append returns (lines 296-298)
StartOffset(st, offn) == offn + st.currAppID * fileSize

RECURSIVE AppendLoop(_, _, _, _, _)

\* one round of the loop of Append after the rollover, whose result is r
\* (lines 283-300): the chunk is appended to the tail
AppendChunk(r, available, bs, n, off, failAt) ==
    IF r.err # OK THEN [st |-> r.st, off |-> off, n |-> n, err |-> r.err]
    ELSE
        LET d == ChunkSize(r.st, available, Len(bs) - n)
            a == HAppend(r.st, r.st.currApp, SubSeq(bs, n + 1, n + d))
        IN IF a.err # OK THEN [st |-> a.st, off |-> off, n |-> n, err |-> a.err]
           ELSE AppendLoop(a.st, bs, n + d,
                           IF n = 0 THEN StartOffset(a.st, a.off) ELSE off, failAt)

\* the loop of Append (lines 255-301)
AppendLoop(st, bs, n, off, failAt) ==
    IF ~(n < Len(bs)) THEN [st |-> st, off |-> off, n |-> n, err |-> OK]
    ELSE
        LET available == fileSize - HOffset(st, st.currApp)
        IN IF available <= 0
           THEN AppendChunk(Rollover(st, failAt), fileSize, bs, n, off, failAt)
           ELSE AppendChunk([st |-> st, err |-> OK], available, bs, n, off, failAt)

\* an Append that checks its buffer before the mode of the log
AppendOpBufferFirst(st, bs, failAt) ==
    IF Len(bs) = 0 THEN [st |-> st, off |-> 0, n |-> 0, err |-> ErrIllegalArguments]
    ELSE IF closed THEN [st |-> st, off |-> 0, n |-> 0, err |-> ErrAlreadyClosed]
    ELSE IF readOnly THEN [st |-> st, off |-> 0, n |-> 0, err |-> ErrReadOnly]
    ELSE AppendLoop(st, bs, 0, 0, failAt)

\* Append (lines 239-304)
AppendOp(st, bs, failAt) ==
    IF closed THEN [st |-> st, off |-> 0, n |-> 0, err |-> ErrAlreadyClosed]
    ELSE IF readOnly THEN [st |-> st, off |-> 0, n |-> 0, err |-> ErrReadOnly]
    ELSE IF Len(bs) = 0 THEN [st |-> st, off |-> 0, n |-> 0, err |-> ErrIllegalArguments]
    ELSE AppendLoop(st, bs, 0, 0, failAt)

\* Offset (lines 318-323)
OffsetOp(st) == st.currAppID * fileSize + HOffset(st, st.currApp)

\* a Size without the closed check
SizeOpUnchecked(st) ==
    LET s == HSize(st, st.currApp)
    IN IF s.err # OK THEN [size |-> 0, err |-> s.err]
       ELSE [size |-> st.currAppID * fileSize + s.size, err |-> OK]

\* Size (lines 224-237)
SizeOp(st) ==
    IF closed THEN [size |-> 0, err |-> ErrAlreadyClosed]
    ELSE LET s == HSize(st, st.currApp)
         IN IF s.err # OK THEN [size |-> 0, err |-> s.err]
            ELSE [size |-> st.currAppID * fileSize + s.size, err |-> OK]

\* a SetOffset to another segment that keeps the old tail id
SetOffsetOpenedKeepsId(o, appID, off, failAt) ==
    IF o.err # OK THEN [st |-> o.st, err |-> o.err]
    ELSE LET c == PutAndClose(o.st, appID, o.h, failAt)
         IN IF c.err # OK THEN [st |-> c.st, err |-> c.err]
            ELSE HSetOffset([c.st EXCEPT !.currApp = o.h], o.h, off % fileSize)

\* SetOffset to another segment, from the result o of openAppendable on
\* (lines 336-357): the handle goes into the cache and becomes the tail
SetOffsetOpened(o, appID, off, failAt) ==
    IF o.err # OK THEN [st |-> o.st, err |-> o.err]
    ELSE LET c == PutAndClose(o.st, appID, o.h, failAt)
         IN IF c.err # OK THEN [st |-> c.st, err |-> c.err]
            ELSE HSetOffset([c.st EXCEPT !.currAppID = appID, !.currApp = o.h],
                            o.h, off % fileSize)

\* SetOffset (lines 325-358)
SetOffsetOp(st, off, failAt) ==
    IF closed THEN [st |-> st, err |-> ErrAlreadyClosed]
    ELSE
        LET appID == appendableID(off, fileSize) IN
        IF st.currAppID # appID
        THEN SetOffsetOpened(openAppendable(st, appendableName(appID)), appID, off, failAt)
        ELSE HSetOffset(st, st.currApp, off % fileSize)

\* appendableFor after a cache miss, from the result o of openAppendable on
\* (lines 377-395): the handle goes into the cache
appendableOpened(o, appID, failAt) ==
    IF o.err # OK THEN [st |-> o.st, app |-> 0, err |-> o.err]
    ELSE LET c == PutAndClose(o.st, appID, o.h, failAt)
         IN IF c.err # OK THEN [st |-> c.st, app |-> 0, err |-> c.err]
            ELSE [st |-> c.st, app |-> o.h, err |-> OK]

\* appendableFor (lines 360-396)
appendableFor(st, off, failAt) ==
    IF closed THEN [st |-> st, app |-> 0, err |-> ErrAlreadyClosed]
    ELSE
        LET appID == appendableID(off, fileSize)
            g == CacheGet(st.cache, appID)
        IN IF g.err = OK
           THEN [st |-> [st EXCEPT !.cache = g.cache], app |-> g.value, err |-> OK]
           ELSE appendableOpened(openAppendable(st, appendableName(appID)), appID, failAt)

\* the in-file offset ReadAt reads at (line 413)
InSegment(offr) == offr % fileSize

RECURSIVE ReadLoop(_, _, _, _, _)

\* one round of the loop of ReadAt, from the result a of appendableFor on
\* (lines 408-422)
ReadChunk(a, len, off, bs, failAt) ==
    IF a.err # OK THEN [st |-> a.st, bs |-> bs, err |-> a.err]
    ELSE
        LET rd == HReadAt(a.st, a.app, len - Len(bs), InSegment(off + Len(bs)))
        IN IF rd.err = EOF /\ Len(rd.bs) > 0
           THEN ReadLoop(a.st, len, off, bs \o rd.bs, failAt)
           ELSE IF rd.err # OK THEN [st |-> a.st, bs |-> bs \o rd.bs, err |-> rd.err]
           ELSE ReadLoop(a.st, len, off, bs \o rd.bs, failAt)

\* the loop of ReadAt (lines 405-425); bs is the part of the buffer filled so far
ReadLoop(st, len, off, bs, failAt) ==
    IF ~(Len(bs) < len) THEN [st |-> st, bs |-> bs, err |-> OK]
    ELSE ReadChunk(appendableFor(st, off + Len(bs), failAt), len, off, bs, failAt)

\* ReadAt (lines 398-426)
ReadAtOp(st, len, off, failAt) ==
    IF len = 0 THEN [st |-> st, bs |-> <<>>, err |-> ErrIllegalArguments]
    ELSE ReadLoop(st, len, off, <<>>, failAt)

\* cache.Apply visits the resident entries in an order the cache does not fix:
\* ord is a permutation of the positions of the cache
Orders(c) == {p \in [1..Len(c) -> 1..Len(c)] : \A i, j \in 1..Len(c) : p[i] = p[j] => i = j}

\* appendables.Apply of Flush (lines 440-445) and of Sync (lines 462-467)
RECURSIVE ApplyFlush(_, _, _)
ApplyFlush(st, ord, i) ==
    IF i > Len(st.cache) THEN OK
    ELSE LET e == HFlush(st, st.cache[ord[i]].value)
         IN IF e # OK THEN e ELSE ApplyFlush(st, ord, i + 1)

\* flush (lines 435-448) and sync (lines 457-470)
flush(st, ord) ==
    IF closed THEN ErrAlreadyClosed
    ELSE LET e == ApplyFlush(st, ord, 1)
         IN IF e # OK THEN e ELSE HFlush(st, st.currApp)

\* appendables.Apply of Close (lines 482-487)
RECURSIVE ApplyClose(_, _, _, _)
ApplyClose(st, ord, i, failAt) ==
    IF i > Len(st.cache) THEN [st |-> st, err |-> OK]
    ELSE LET c == HClose(st, st.cache[ord[i]].value, failAt)
         IN IF c.err # OK THEN c ELSE ApplyClose(c.st, ord, i + 1, failAt)

\* a Close that marks the log closed only when every handle closed
ClosedOnlyOnSuccess(err) == err = OK

\* what Close assigns to mf.closed (line 480) before it closes any handle
ClosedAfterClose(err) == TRUE

\* Close, from the result a of appendables.Apply on (lines 485-489)
CloseTail(a, failAt) ==
    IF a.err # OK THEN a ELSE HClose(a.st, a.st.currApp, failAt)

\* Close (lines 472-490), after the closed check
CloseOp(st, ord, failAt) == CloseTail(ApplyClose(st, ord, 1, failAt), failAt)

\* Copy (lines 148-184): flush, sync, then every file of the directory is
\* copied into the destination directory, which is no part of the log: the
\* result names the files copied
CopyOp(st, ord) ==
    IF closed THEN [files |-> {}, err |-> ErrAlreadyClosed]
    ELSE LET e == flush(st, ord)
         IN IF e # OK THEN [files |-> {}, err |-> e]
            ELSE [files |-> ReadDir(st.disk), err |-> OK]

\* Metadata (lines 216-222)
MetadataOp(st) == st.handles[st.currApp].meta.WRAPPED_METADATA

\* CompressionFormat (lines 202-207)
CompressionFormatOp(st) == st.handles[st.currApp].meta.compression

\* CompressionLevel (lines 209-214)
CompressionLevelOp(st) == st.handles[st.currApp].meta.level

-----------------------------------------------------------------------------
(* The state machine *)

\* What is left of the heap when a call returns.  A closed object nothing
\* refers to is reclaimed.  No call reads the fields of an object again, other
\* than whether it is open, once it is not the tail: the cursor of such an
\* object, and every field of an open object nothing refers to (a leaked
\* descriptor), are reset, so that heaps no call can tell apart are one state.
Leaked == [state |-> "open", seg |-> 0, off |-> 0, ro |-> FALSE, meta |-> NoMeta]

Collect(st) ==
    [h \in HandleIds |->
        IF h = st.currApp THEN st.handles[h]
        ELSE IF h \in CacheValues(st.cache) THEN [st.handles[h] EXCEPT !.off = 0]
        ELSE IF st.handles[h].state = "open" THEN Leaked
        ELSE FreeHandle]

\* Handle ids are addresses: the objects left are renumbered in the order
\* tail, cache (least recently used first), unreferenced, so that two heaps
\* that differ only in the addresses are one state.
Rank(st, hs, h) ==
    LET role == IF h = st.currApp THEN 0
                ELSE IF h \in CacheValues(st.cache)
                THEN CHOOSE i \in 1..Len(st.cache) : st.cache[i].value = h
                ELSE Len(st.cache) + 1
    IN role * (Cardinality(HandleIds) + 1) + h

Renumber(st) ==
    LET hs == Collect(st)
        live == {h \in HandleIds : hs[h].state # "free"}
        new == [h \in live |-> 1 + Cardinality({g \in live : Rank(st, hs, g) < Rank(st, hs, h)})]
        old == [k \in 1..Cardinality(live) |-> CHOOSE h \in live : new[h] = k]
    IN [handles |-> [k \in HandleIds |->
                        IF k <= Cardinality(live) THEN hs[old[k]] ELSE FreeHandle],
        cache |-> [i \in 1..Len(st.cache) |->
                        [key |-> st.cache[i].key, value |-> new[st.cache[i].value]]],
        currApp |-> new[st.currApp]]

OpenHandles(hs) == {h \in HandleIds : hs[h].state = "open"}
LeakedHandles(hs, c, tail) == OpenHandles(hs) \ (CacheValues(c) \cup {tail})

Commit(st) ==
    /\ ~st.full
    /\ \E rn \in {Renumber(st)} :
        /\ Cardinality(LeakedHandles(rn.handles, rn.cache, rn.currApp)) <= MaxLeak
        /\ disk' = st.disk
        /\ handles' = rn.handles
        /\ appendables' = rn.cache
        /\ currAppID' = st.currAppID
        /\ currApp' = rn.currApp

\* the record of a call: op, the error returned, off and n (arguments or
\* results), bs (the buffer appended or read), wasClosed (mf.closed when the
\* call began), pre (Offset() when the call began), prevEnd (hist.next when the
\* call began), closeCalls (the handles the call invoked Close on, in order)
Ret(op, err, off, n, bs, cc) ==
    [op |-> op, err |-> err, off |-> off, n |-> n, bs |-> bs,
     wasClosed |-> closed, pre |-> OffsetOp(St), prevEnd |-> hist.next,
     closeCalls |-> cc]

\* no call is returning: the caller has taken the result of the last one
Idle == [op |-> "none", err |-> OK, off |-> 0, n |-> 0, bs |-> <<>>,
         wasClosed |-> FALSE, pre |-> 0, prevEnd |-> 0, closeCalls |-> <<>>]

None == 0 - 1

Hist0(fsz) ==
    [appended |-> {},   \* the offsets successful appends have written
     next |-> None,     \* the end of the last successful append, when no SetOffset,
                        \* Close or Append that failed halfway was called since
     total |-> 0,       \* bytes appended so far, while pure
     pure |-> TRUE,     \* so far only successful appends, observers, reads that
                        \* created no file, Close and Open were called
     clean |-> FALSE,   \* the log is closed, or just reopened, and Close returned no error
     faulty |-> FALSE,  \* a handle's Close failed since the log was opened
     writes |-> TRUE,   \* so far no ReadAt has changed the cache, a handle or a file
     cursor |-> None,   \* the offset of the last successful SetOffset, when no
                        \* Append, SetOffset or Close was called since
     S0 |-> fsz]        \* the segment size chosen at creation

\* a call that changes the log, after which the history is no longer pure
Impure(h) == [h EXCEPT !.next = None, !.pure = FALSE, !.total = 0]

\* the history after a call that returned err
Faulty(h, err) == IF err = ErrIO THEN [h EXCEPT !.faulty = TRUE] ELSE h

\* the closes a call may be told to fail: none when the cache cannot get full
FailPoints(puts) ==
    IF Len(appendables) + puts <= cacheSize THEN {0} ELSE 0..MaxFail

Init ==
    \E fsz \in FileSizes, c \in CacheSizes, md \in Metas, lv \in Levels :
        \E o \in {Open(EmptyDir, [readOnly |-> FALSE, fileSize |-> fsz,
                                   metadata |-> md, maxOpenedFiles |-> c,
                                   compressionLevel |-> lv])} :
           /\ disk = o.st.disk
           /\ handles = o.st.handles
           /\ appendables = o.st.cache
           /\ cacheSize = c
           /\ currAppID = o.st.currAppID
           /\ currApp = o.st.currApp
           /\ readOnly = FALSE
           /\ fileSize = o.fileSize
           /\ closed = FALSE
           /\ ret = [Idle EXCEPT !.op = "Open", !.n = fsz]
           /\ hist = Hist0(fsz)

\* Open on the directory of a closed log; ret.n is opts.fileSize
Reopen ==
    /\ ret = Idle
    /\ closed
    /\ \E ro \in BOOLEAN, fsz \in FileSizes, c \in CacheSizes, md \in ReopenMetas,
          lv \in Levels :
        \E o \in {Open(disk, [readOnly |-> ro, fileSize |-> fsz,
                               metadata |-> md, maxOpenedFiles |-> c,
                               compressionLevel |-> lv])} :
           /\ o.err = OK
           /\ disk' = o.st.disk
           /\ handles' = o.st.handles
           /\ appendables' = o.st.cache
           /\ cacheSize' = c
           /\ currAppID' = o.st.currAppID
           /\ currApp' = o.st.currApp
           /\ readOnly' = ro
           /\ fileSize' = o.fileSize
           /\ closed' = FALSE
           /\ ret' = [Idle EXCEPT !.op = "Open", !.n = fsz, !.wasClosed = TRUE]
           /\ hist' = [hist EXCEPT !.next = None, !.faulty = FALSE]

AppendCall ==
    /\ ret = Idle
    /\ \E len \in {l \in 0..MaxLen : closed \/ readOnly \/ OffsetOp(St) + l <= MaxSize},
          failAt \in FailPoints(MaxSegId) :
        \E bs \in {Buf(OffsetOp(St), len)} : \E r \in {AppendOp(St, bs, failAt)} :
           /\ Commit(r.st)
           /\ ret' = Ret("Append", r.err, r.off, r.n, bs, r.st.closeCalls)
           /\ hist' = IF r.err = OK
                      THEN [hist EXCEPT
                              !.appended = @ \cup {o \in Offsets : o >= r.off /\ o < r.off + r.n},
                              !.next = r.off + r.n,
                              !.total = IF hist.pure THEN @ + r.n ELSE 0,
                              !.cursor = None]
                      ELSE IF r.st = St THEN hist
                      ELSE Faulty([Impure(hist) EXCEPT !.cursor = None], r.err)
           /\ UNCHANGED <<cacheSize, readOnly, fileSize, closed>>

ReadAtCall ==
    /\ ret = Idle
    /\ \E off \in Offsets, failAt \in FailPoints(MaxSegId + 1) :
        \E len \in 0..minInt(MaxLen, MaxSize - off) :
        \E r \in {ReadAtOp(St, len, off, failAt)} :
           /\ Commit(r.st)
           /\ ret' = Ret("ReadAt", r.err, off, len, r.bs, r.st.closeCalls)
           /\ hist' = Faulty(IF r.st = St THEN hist
                              ELSE IF r.st.disk = disk THEN [hist EXCEPT !.writes = FALSE]
                              ELSE [Impure(hist) EXCEPT !.next = hist.next,
                                                        !.writes = FALSE], r.err)
           /\ UNCHANGED <<cacheSize, readOnly, fileSize, closed>>

SetOffsetCall ==
    /\ ret = Idle
    /\ \E off \in Offsets, failAt \in FailPoints(1) :
        \E r \in {SetOffsetOp(St, off, failAt)} :
           /\ Commit(r.st)
           /\ ret' = Ret("SetOffset", r.err, off, 0, <<>>, r.st.closeCalls)
           /\ hist' = Faulty([(IF r.st = St THEN hist ELSE Impure(hist)) EXCEPT
                                  !.next = None,
                                  !.cursor = IF r.err = OK THEN off ELSE None], r.err)
           /\ UNCHANGED <<cacheSize, readOnly, fileSize, closed>>

SizeCall ==
    /\ ret = Idle
    /\ \E r \in {SizeOp(St)} : ret' = Ret("Size", r.err, r.size, 0, <<>>, <<>>)
    /\ UNCHANGED <<disk, handles, appendables, cacheSize, currAppID, currApp,
                   readOnly, fileSize, closed, hist>>

OffsetCall ==
    /\ ret = Idle
    /\ ret' = Ret("Offset", OK, OffsetOp(St), 0, <<>>, <<>>)
    /\ UNCHANGED <<disk, handles, appendables, cacheSize, currAppID, currApp,
                   readOnly, fileSize, closed, hist>>

MetadataCall ==
    /\ ret = Idle
    /\ ret' = Ret("Metadata", OK, MetadataOp(St), 0, <<>>, <<>>)
    /\ UNCHANGED <<disk, handles, appendables, cacheSize, currAppID, currApp,
                   readOnly, fileSize, closed, hist>>

CompressionFormatCall ==
    /\ ret = Idle
    /\ ret' = Ret("CompressionFormat", OK, CompressionFormatOp(St), 0, <<>>, <<>>)
    /\ UNCHANGED <<disk, handles, appendables, cacheSize, currAppID, currApp,
                   readOnly, fileSize, closed, hist>>

CompressionLevelCall ==
    /\ ret = Idle
    /\ ret' = Ret("CompressionLevel", OK, CompressionLevelOp(St), 0, <<>>, <<>>)
    /\ UNCHANGED <<disk, handles, appendables, cacheSize, currAppID, currApp,
                   readOnly, fileSize, closed, hist>>

FlushCall ==
    /\ ret = Idle
    /\ \E ord \in Orders(appendables) :
        /\ ret' = Ret("Flush", flush(St, ord), 0, 0, <<>>, <<>>)
        /\ UNCHANGED <<disk, handles, appendables, cacheSize, currAppID, currApp,
                       readOnly, fileSize, closed, hist>>

SyncCall ==
    /\ ret = Idle
    /\ \E ord \in Orders(appendables) :
        /\ ret' = Ret("Sync", flush(St, ord), 0, 0, <<>>, <<>>)
        /\ UNCHANGED <<disk, handles, appendables, cacheSize, currAppID, currApp,
                       readOnly, fileSize, closed, hist>>

CopyCall ==
    /\ ret = Idle
    /\ \E ord \in Orders(appendables) :
        \E r \in {CopyOp(St, ord)} :
           /\ ret' = Ret("Copy", r.err, 0, Cardinality(r.files), <<>>, <<>>)
           /\ UNCHANGED <<disk, handles, appendables, cacheSize, currAppID, currApp,
                          readOnly, fileSize, closed, hist>>

CloseCall ==
    /\ ret = Idle
    /\ \E ord \in Orders(appendables), failAt \in 0..MaxFail :
        IF closed
        THEN /\ ret' = Ret("Close", ErrAlreadyClosed, 0, 0, <<>>, <<>>)
             /\ UNCHANGED <<disk, handles, appendables, cacheSize, currAppID,
                            currApp, readOnly, fileSize, closed, hist>>
        ELSE \E r \in {CloseOp(St, ord, failAt)} :
                /\ closed' = ClosedAfterClose(r.err)
                /\ disk' = r.st.disk
                /\ handles' = r.st.handles
                /\ appendables' = r.st.cache
                /\ currAppID' = r.st.currAppID
                /\ currApp' = r.st.currApp
                /\ ret' = Ret("Close", r.err, 0, 0, <<>>, r.st.closeCalls)
                /\ hist' = Faulty([hist EXCEPT !.next = None, !.cursor = None,
                                                !.clean = (r.err = OK)],
                                  r.err)
                /\ UNCHANGED <<cacheSize, readOnly, fileSize>>

\* The caller takes the result.  Once Close has returned no call reads the
\* cache or an object other than the tail again (Offset, Metadata and
\* CompressionFormat read the tail, every other call returns ErrAlreadyClosed
\* first): what else Close left behind is dropped with its result.
Return ==
    /\ ret # Idle
    /\ ret' = Idle
    /\ IF ret.op = "Close" /\ closed
       THEN /\ handles' = [h \in HandleIds |-> IF h = 1 THEN handles[currApp] ELSE FreeHandle]
            /\ currApp' = 1
            /\ appendables' = <<>>
       ELSE UNCHANGED <<handles, currApp, appendables>>
    /\ hist' = IF ret.op = "Open" THEN [hist EXCEPT !.clean = FALSE] ELSE hist
    /\ UNCHANGED <<disk, cacheSize, currAppID, readOnly, fileSize, closed>>

Next ==
    \/ Return
    \/ Reopen
    \/ AppendCall
    \/ ReadAtCall
    \/ SetOffsetCall
    \/ SizeCall
    \/ OffsetCall
    \/ MetadataCall
    \/ CompressionFormatCall
    \/ CompressionLevelCall
    \/ FlushCall
    \/ SyncCall
    \/ CopyCall
    \/ CloseCall

Spec == Init /\ [][Next]_vars

-----------------------------------------------------------------------------
(* The calls in steps.  Every public method but ReadAt locks mf.mutex on entry
   and unlocks it on return (lines 149-150, 203-204, ..., 473-474).  ReadAt
   (lines 398-426) does not: only appendableFor, which it calls once per round
   of its loop, locks the mutex (lines 361-362), and the read of the handle
   appendableFor returned (line 413) runs after the unlock.  Here one goroutine
   makes its calls in steps, one round of a loop per step, while a second
   goroutine makes calls whenever the mutex is free.  ret holds the call of
   the first goroutine: its position, its arguments and its local variables. *)

\* a call in progress.  ReadAt: off and n are the offset and len(bs), bs the
\* bytes read so far, app the handle appendableFor returned and appOpen whether
\* it was open then.  Append: bs is the buffer, n and off the results so far.
Running(op, off, n, bs, app, appOpen) ==
    [op |-> op, err |-> OK, off |-> off, n |-> n, bs |-> bs,
     wasClosed |-> closed, pre |-> 0, prevEnd |-> None, closeCalls |-> <<>>,
     app |-> app, appOpen |-> appOpen]

\* the positions at which the first goroutine does not hold the mutex
Unlocked == {"none", "ReadAt.loop", "ReadAt.app"}

\* the handle the reader holds in its local variable app (0: none)
Pin == IF ret.op = "ReadAt.app" THEN ret.app ELSE 0

\* the heap as Collect leaves it, with the object the reader holds kept
CollectPinned(st, pin) ==
    [h \in HandleIds |->
        IF h = pin /\ h # st.currApp /\ h \notin CacheValues(st.cache)
        THEN [st.handles[h] EXCEPT !.off = 0]
        ELSE Collect(st)[h]]

\* Rank, with the object only the reader holds before the unreferenced ones
RankPinned(st, pin, h) ==
    IF h = pin /\ h # st.currApp /\ h \notin CacheValues(st.cache)
    THEN (Len(st.cache) + 1) * (Cardinality(HandleIds) + 1)
    ELSE Rank(st, st.handles, h) + (IF h = st.currApp \/ h \in CacheValues(st.cache)
                                    THEN 0 ELSE Cardinality(HandleIds) + 1)

\* Renumber, with the object the reader holds kept and renumbered too
RenumberPinned(st, pin) ==
    LET hs == CollectPinned(st, pin)
        live == {h \in HandleIds : hs[h].state # "free"}
        new == [h \in live |->
                    1 + Cardinality({g \in live : RankPinned(st, pin, g) < RankPinned(st, pin, h)})]
        old == [k \in 1..Cardinality(live) |-> CHOOSE h \in live : new[h] = k]
    IN [handles |-> [k \in HandleIds |->
                        IF k <= Cardinality(live) THEN hs[old[k]] ELSE FreeHandle],
        cache |-> [i \in 1..Len(st.cache) |->
                        [key |-> st.cache[i].key, value |-> new[st.cache[i].value]]],
        currApp |-> new[st.currApp],
        pin |-> IF pin = 0 THEN 0 ELSE new[pin]]

\* the heap a step leaves is within the bounds of the model
WithinBounds(st, rn) ==
    /\ ~st.full
    /\ Cardinality(LeakedHandles(rn.handles, rn.cache, rn.currApp)) <= MaxLeak

\* the fields after a locked section, while the reader holds a handle
CommitPinned(st, rn) ==
    /\ WithinBounds(st, rn)
    /\ disk' = st.disk
    /\ handles' = rn.handles
    /\ appendables' = rn.cache
    /\ currAppID' = st.currAppID
    /\ currApp' = rn.currApp

\* the reader's record after a locked section of the other goroutine
Repinned(rn) == IF ret.op = "ReadAt.app" THEN [ret EXCEPT !.app = rn.pin] ELSE ret

\* ReadAt is called (lines 398-403)
ReadAtBegin ==
    /\ ret = Idle
    /\ \E off \in Offsets : \E len \in 0..minInt(MaxLen, MaxSize - off) :
          ret' = IF len = 0 THEN Ret("ReadAt", ErrIllegalArguments, off, 0, <<>>, <<>>)
                 ELSE Running("ReadAt.loop", off, len, <<>>, 0, FALSE)
    /\ UNCHANGED <<disk, handles, appendables, cacheSize, currAppID, currApp,
                   readOnly, fileSize, closed, hist>>

\* a round of the loop of ReadAt, first half (lines 406-411): appendableFor
\* locks the mutex, resolves the handle and unlocks
ReadAtResolve ==
    /\ ret.op = "ReadAt.loop"
    /\ \E a \in {appendableFor(St, ret.off + Len(ret.bs), 0)} :
        \E rn \in {RenumberPinned(a.st, a.app)} :
           /\ CommitPinned(a.st, rn)
           /\ ret' = IF a.err # OK
                     THEN Ret("ReadAt", a.err, ret.off, ret.n, ret.bs, a.st.closeCalls)
                     ELSE Running("ReadAt.app", ret.off, ret.n, ret.bs, rn.pin,
                                  IsOpen(rn.handles, rn.pin))
    /\ UNCHANGED <<cacheSize, readOnly, fileSize, closed, hist>>

\* a ReadAt that goes on at the end of a segment even when it read nothing
ReadGoesOnAtEOF(rd) == rd.err = EOF \/ rd.err = OK

\* whether the loop of ReadAt goes on after a read of a handle (lines 416-422)
ReadGoesOn(rd) == (rd.err = EOF /\ Len(rd.bs) > 0) \/ rd.err = OK

\* a round of the loop of ReadAt, second half (lines 413-422, then 405 and
\* 425): the handle is read without the mutex
ReadAtRead ==
    /\ ret.op = "ReadAt.app"
    /\ \E rd \in {HReadAt(St, ret.app, ret.n - Len(ret.bs),
                          InSegment(ret.off + Len(ret.bs)))} :
        \E bs \in {ret.bs \o rd.bs} :
           ret' = IF ~ReadGoesOn(rd) THEN Ret("ReadAt", rd.err, ret.off, ret.n, bs, <<>>)
                  ELSE IF Len(bs) < ret.n
                  THEN Running("ReadAt.loop", ret.off, ret.n, bs, 0, FALSE)
                  ELSE Ret("ReadAt", OK, ret.off, ret.n, bs, <<>>)
    /\ \E rn \in {RenumberPinned(St, 0)} : CommitPinned(St, rn)
    /\ UNCHANGED <<cacheSize, readOnly, fileSize, closed, hist>>

\* Append is called (lines 239-253): the mutex is locked until the call returns
AppendBegin ==
    /\ ret = Idle
    /\ \E len \in {l \in 0..MaxLen : closed \/ readOnly \/ OffsetOp(St) + l <= MaxSize} :
        \E bs \in {Buf(OffsetOp(St), len)} : \E whole \in {AppendOp(St, bs, 0)} :
           /\ ~whole.st.full
           /\ \E rn \in {Renumber(whole.st)} :
                 Cardinality(LeakedHandles(rn.handles, rn.cache, rn.currApp)) <= MaxLeak
           /\ ret' = IF closed THEN Ret("Append", ErrAlreadyClosed, 0, 0, bs, <<>>)
                     ELSE IF readOnly THEN Ret("Append", ErrReadOnly, 0, 0, bs, <<>>)
                     ELSE IF Len(bs) = 0 THEN Ret("Append", ErrIllegalArguments, 0, 0, bs, <<>>)
                     ELSE Running("Append.loop", 0, 0, bs, 0, FALSE)
    /\ UNCHANGED <<disk, handles, appendables, cacheSize, currAppID, currApp,
                   readOnly, fileSize, closed, hist>>

\* one round of the loop of Append after the rollover, whose result is r
\* (lines 283-300), and the test of the loop (lines 255 and 303)
AppendRound(r, available, bs, n, off) ==
    IF r.err # OK THEN [st |-> r.st, off |-> off, n |-> n, err |-> r.err, done |-> TRUE]
    ELSE
        LET d == ChunkSize(r.st, available, Len(bs) - n)
            a == HAppend(r.st, r.st.currApp, SubSeq(bs, n + 1, n + d))
        IN IF a.err # OK
           THEN [st |-> a.st, off |-> off, n |-> n, err |-> a.err, done |-> TRUE]
           ELSE [st |-> a.st, off |-> IF n = 0 THEN StartOffset(a.st, a.off) ELSE off,
                 n |-> n + d, err |-> OK, done |-> ~(n + d < Len(bs))]

\* a round of the loop of Append (lines 255-301)
AppendIter ==
    /\ ret.op = "Append.loop"
    /\ \E available \in {fileSize - HOffset(St, currApp)} :
        \E r \in {IF available <= 0
                  THEN AppendRound(Rollover(St, 0), fileSize, ret.bs, ret.n, ret.off)
                  ELSE AppendRound([st |-> St, err |-> OK], available, ret.bs, ret.n, ret.off)} :
           /\ disk' = r.st.disk
           /\ handles' = r.st.handles
           /\ appendables' = r.st.cache
           /\ currAppID' = r.st.currAppID
           /\ currApp' = r.st.currApp
           /\ ret' = IF r.done THEN Ret("Append", r.err, r.off, r.n, ret.bs, r.st.closeCalls)
                     ELSE Running("Append.loop", r.off, r.n, ret.bs, 0, FALSE)
    /\ UNCHANGED <<cacheSize, readOnly, fileSize, closed, hist>>

\* the first goroutine takes the result of its call; the objects the call left
\* unreferenced are collected
TakeResult ==
    /\ ret.op \in {"Open", "Append", "ReadAt"}
    /\ ret' = Idle
    /\ \E rn \in {RenumberPinned(St, 0)} : CommitPinned(St, rn)
    /\ UNCHANGED <<cacheSize, readOnly, fileSize, closed, hist>>

\* the second goroutine calls Append while the mutex is free
OtherAppend ==
    /\ ret.op \in Unlocked
    /\ \E len \in {l \in 1..MaxLen : OffsetOp(St) + l <= MaxSize} :
        \E r \in {AppendOp(St, Buf(OffsetOp(St), len), 0)} :
        \E rn \in {RenumberPinned(r.st, Pin)} :
           /\ CommitPinned(r.st, rn)
           /\ ret' = Repinned(rn)
    /\ UNCHANGED <<cacheSize, readOnly, fileSize, closed, hist>>

\* the second goroutine calls SetOffset while the mutex is free
OtherSetOffset ==
    /\ ret.op \in Unlocked
    /\ \E off \in Offsets :
        \E r \in {SetOffsetOp(St, off, 0)} :
        \E rn \in {RenumberPinned(r.st, Pin)} :
           /\ CommitPinned(r.st, rn)
           /\ ret' = Repinned(rn)
    /\ UNCHANGED <<cacheSize, readOnly, fileSize, closed, hist>>

\* the second goroutine, in a ReadAt of its own, calls appendableFor while the
\* mutex is free
OtherReadAt ==
    /\ ret.op \in Unlocked
    /\ \E off \in Offsets :
        \E a \in {appendableFor(St, off, 0)} :
        \E rn \in {RenumberPinned(a.st, Pin)} :
           /\ CommitPinned(a.st, rn)
           /\ ret' = Repinned(rn)
    /\ UNCHANGED <<cacheSize, readOnly, fileSize, closed, hist>>

NextConc ==
    \/ TakeResult
    \/ ReadAtBegin
    \/ ReadAtResolve
    \/ ReadAtRead
    \/ AppendBegin
    \/ AppendIter
    \/ OtherAppend
    \/ OtherSetOffset
    \/ OtherReadAt

\* The first goroutine is scheduled again and again, and a goroutine waiting
\* for a mutex that is free again and again gets it: weak fairness of each of
\* its steps.  A step is enabled exactly at its position (ReaderReady below
\* says that the bounds of the model never block it), so the enabling
\* condition of WF_vars is written as the position.
ConcSpec ==
    /\ Init
    /\ [][NextConc]_vars
    /\ ([]<>(ret.op # "ReadAt.loop") \/ []<><<ReadAtResolve>>_vars)
    /\ ([]<>(ret.op # "ReadAt.app") \/ []<><<ReadAtRead>>_vars)
    /\ ([]<>(ret.op # "Append.loop") \/ []<><<AppendIter>>_vars)

\* at each position of a call in progress the next step of the call can be
\* taken
ReaderReady ==
    /\ ret.op = "ReadAt.loop" =>
          \E a \in {appendableFor(St, ret.off + Len(ret.bs), 0)} :
          \E rn \in {RenumberPinned(a.st, a.app)} : WithinBounds(a.st, rn)
    /\ ret.op = "ReadAt.app" =>
          \E rn \in {RenumberPinned(St, 0)} : WithinBounds(St, rn)
    /\ ret.op = "Append.loop" => ~closed

-----------------------------------------------------------------------------
(* The claims *)

Existing == {s \in SegIds : disk[s].exists}
Range(off, n) == {o \in Offsets : o >= off /\ o < off + n}
PublicMethods == {"Append", "ReadAt", "Size", "Offset", "SetOffset", "Metadata",
                  "CompressionFormat", "CompressionLevel", "Flush", "Sync", "Copy",
                  "Close"}

\* C1 (as claimed): a successful Append returns n = len(bs), and a later ReadAt
\* of bytes that successful appends have written returns exactly those bytes:
\* when its whole range was appended, and no Close of a handle has failed, the
\* read succeeds and returns the range, whatever segments it spans.
AppendReadRoundTrip ==
    /\ (ret.op = "Append" /\ ret.err = OK) => ret.n = Len(ret.bs)
    /\ (ret.op = "ReadAt" /\ ~ret.wasClosed /\ ~hist.faulty) =>
        /\ \A i \in 1..Len(ret.bs) :
              (ret.off + i - 1) \in hist.appended => ret.bs[i] = ByteAt(ret.off + i - 1)
        /\ (ret.n > 0 /\ Range(ret.off, ret.n) \subseteq hist.appended)
              => (ret.err = OK /\ ret.bs = Buf(ret.off, ret.n))

\* C2: a successful Append returns the Offset() seen right before the call, and
\* when the call before it (observers and reads aside) was a successful Append,
\* it starts where that one ended.
AppendOffsetsContiguous ==
    (ret.op = "Append" /\ ret.err = OK) =>
        /\ ret.off = ret.pre
        /\ ret.prevEnd # None => ret.off = ret.prevEnd
        /\ OffsetOp(St) = ret.off + ret.n

\* C2 witness: an Append that starts with a rollover (the tail was exactly
\* full) right after another Append
AppendStartsWithRollover ==
    /\ ret.op = "Append" /\ ret.err = OK
    /\ ret.pre > 0 /\ ret.pre % fileSize = 0
    /\ ret.prevEnd = ret.pre
    /\ ret.off = ret.pre

\* C3 (as claimed): while no Close of a handle has failed, at most
\* maxOpenedFiles + 1 segment handles are opened and not closed
OpenHandleBound ==
    ~hist.faulty => Cardinality(OpenHandles(handles)) <= cacheSize + 1

\* C4 (as claimed): the cache holds no entry under the tail's id
CacheNeverHoldsTail ==
    (~closed /\ ~hist.faulty) => currAppID \notin CacheKeys(appendables)

\* C5 (as claimed): while the log is not closed its tail handle is open
TailAlwaysOpen ==
    (~closed /\ ~hist.faulty) => handles[currApp].state = "open"

\* C6 (as claimed): the segment files are those of the ids 0..tail_id
SegmentsContiguous ==
    Existing = 0..currAppID

CloseContract ==
    [][ret'.op = "Close" =>
        IF closed
        THEN /\ ret'.err = ErrAlreadyClosed
             /\ ret'.closeCalls = <<>>
             /\ UNCHANGED <<handles, appendables, currApp, closed>>
        ELSE LET cc == ret'.closeCalls
                 k == Len(appendables)
             IN /\ closed'
                /\ Len(cc) >= 1 /\ Len(cc) <= k + 1
                /\ \A i \in 1..Len(cc) : i <= k => cc[i] \in CacheValues(appendables)
                /\ \A i, j \in 1..Len(cc) : (i <= k /\ j <= k /\ cc[i] = cc[j]) => i = j
                /\ Len(cc) = k + 1 => cc[k + 1] = currApp
                /\ \A i \in 1..(Len(cc) - 1) : handles'[cc[i]].state = "closed"
                /\ \A h \in HandleIds :
                      (\A i \in 1..Len(cc) : cc[i] # h) => handles'[h] = handles[h]
                /\ ret'.err = OK =>
                      (Len(cc) = k + 1 /\ handles'[currApp].state = "closed")
                /\ ret'.err # OK =>
                      /\ ret'.err \in {ErrIO, ErrHandleClosed}
                      /\ ret'.err = ErrIO => handles'[cc[Len(cc)]].state = "open"
    ]_vars

\* C8 witness: a Close that closed a cached handle and then failed on the tail
CloseFailsOnTail ==
    /\ ret.op = "Close" /\ ~ret.wasClosed /\ closed
    /\ ret.err = ErrIO /\ Len(ret.closeCalls) = 2
    /\ handles[ret.closeCalls[1]].state = "closed"
    /\ ret.closeCalls[2] = currApp

\* C9: when only successful appends (and calls that change nothing) were made
\* and Close returned no error, an Open of the directory, read-only or not,
\* takes the highest-numbered segment as the tail and Size() is the number of
\* bytes appended.
ReopenKeepsSize ==
    (ret.op = "Open" /\ ret.wasClosed /\ hist.pure /\ hist.clean) =>
        /\ \A s \in Existing : s <= currAppID
        /\ currAppID \in Existing
        /\ SizeOp(St) = [size |-> hist.total, err |-> OK]

\* C9 witness: a read-only reopen of a log of several segments
ReopenedReadOnlyFull ==
    /\ ret.op = "Open" /\ ret.wasClosed /\ hist.pure /\ hist.clean
    /\ readOnly /\ currAppID >= 1 /\ hist.total = MaxSize

\* C10: the FILE_SIZE of the header of every segment file, and the segment size
\* the log works with, are the size chosen when the log was created, whatever
\* opts.fileSize a later Open gives.
SegmentSizeImmutable ==
    /\ fileSize = hist.S0
    /\ \A s \in Existing : disk[s].meta.FILE_SIZE = hist.S0
    /\ \A h \in CacheValues(appendables) \cup {currApp} :
          handles[h].meta.FILE_SIZE = hist.S0

\* C10 witness: a log of several segments reopened with another opts.fileSize
ReopenedWithOtherFileSize ==
    /\ ret.op = "Open" /\ ret.wasClosed /\ ret.n # fileSize
    /\ Cardinality(Existing) >= 2

\* C11 (as claimed): a handle that appendableFor returned open to a ReadAt is
\* still open when that ReadAt reads it: no other call takes effect in between
ReaderHandleStaysOpen ==
    (ret.op = "ReadAt.app" /\ ret.appOpen) => IsOpen(handles, ret.app)

\* C12: Append on a closed log fails with already-closed, else on a read-only
\* log with read-only, else with an empty buffer with illegal-arguments, and
\* returns (0, 0); ReadAt with an empty buffer fails with illegal-arguments and
\* reads nothing; none of these calls changes the tail, the cache, a handle or
\* a file.
RejectionsChangeNothing ==
    [][/\ (ret'.op = "Append" /\ (closed \/ readOnly \/ Len(ret'.bs) = 0)) =>
            /\ ret'.err = IF closed THEN ErrAlreadyClosed
                          ELSE IF readOnly THEN ErrReadOnly
                          ELSE ErrIllegalArguments
            /\ ret'.off = 0 /\ ret'.n = 0
            /\ UNCHANGED <<disk, handles, appendables, currAppID, currApp, closed>>
       /\ (ret'.op = "ReadAt" /\ ret'.n = 0) =>
            /\ ret'.err = ErrIllegalArguments
            /\ ret'.bs = <<>>
            /\ UNCHANGED <<disk, handles, appendables, currAppID, currApp, closed>>
    ]_vars

\* C12 witness: Append of an empty buffer on a read-only log that is not
\* closed is rejected as read-only
EmptyAppendOnReadOnly ==
    /\ ret.op = "Append" /\ ~ret.wasClosed /\ readOnly
    /\ Len(ret.bs) = 0 /\ ret.err = ErrReadOnly /\ ret.n = 0

\* C13 (as claimed): after any sequence of Append and SetOffset calls (and
\* calls that change nothing) without a failed handle Close, every segment
\* file holds at most S bytes and every segment file other than the tail's
\* holds exactly S bytes
SegmentsFilled ==
    (hist.writes /\ ~hist.faulty) =>
        /\ \A s \in Existing : Len(disk[s].data) <= fileSize
        /\ \A s \in Existing \ {currAppID} : Len(disk[s].data) = fileSize

\* C14: after a successful SetOffset(off), Offset() is off, the tail is the
\* segment off / S and its file exists; SetOffset deletes no segment file; and
\* a successful Append that follows a successful SetOffset(off), with only
\* reads and observers in between, returns off as its start.
SetOffsetMovesCursor ==
    [][/\ (ret'.op = "SetOffset" /\ ret'.err = OK) =>
            /\ currAppID' * fileSize' + handles'[currApp'].off = ret'.off
            /\ currAppID' = ret'.off \div fileSize'
            /\ disk'[currAppID'].exists
       /\ ret'.op = "SetOffset" => \A s \in SegIds : disk[s].exists => disk'[s].exists
       /\ (ret'.op = "Append" /\ ret'.err = OK /\ hist.cursor # None) =>
            ret'.off = hist.cursor
    ]_vars

\* C14 witness: a SetOffset into a segment that was not on disk, past the end
\* of a log that holds data
SetOffsetIntoNewSegment ==
    /\ ret.op = "SetOffset" /\ ret.err = OK /\ hist.cursor = ret.off
    /\ ret.off > 0 /\ currAppID > 0
    /\ Len(disk[currAppID].data) = 0 /\ Len(disk[0].data) > 0
    /\ OffsetOp(St) = ret.off

\* the bytes held by the segment files 0..s of a directory
RECURSIVE DiskBytes(_, _)
DiskBytes(d, s) == IF s < 0 THEN 0 ELSE Len(d[s].data) + DiskBytes(d, s - 1)

\* C15 (as claimed): when, after appends alone, an Append fails because the
\* Close of the handle ejected at a rollover fails, it returns n equal to the
\* bytes it has written, the tail handle is the handle of segment tail_id, and
\* the cache holds no entry under tail_id
RolloverFailureKeepsTailOwned ==
    [][(/\ ret'.op = "Append" /\ ret'.err = ErrIO
        /\ hist.pure /\ hist.writes /\ ~hist.faulty
        /\ currAppID \notin CacheKeys(appendables)) =>
            /\ ret'.n = DiskBytes(disk', MaxSegId) - DiskBytes(disk, MaxSegId)
            /\ handles'[currApp'].seg = currAppID'
            /\ currAppID' \notin CacheKeys(appendables')
    ]_vars

\* C16: every Append and every ReadAt returns.  A round of the loop of Append
\* writes at least one byte or returns, a round of the loop of ReadAt reads at
\* least one byte or returns, neither writes or reads more than the buffer
\* holds, and a call that has begun returns in the end, whatever the other
\* goroutine does in between.
CallsTerminate ==
    /\ []ReaderReady
    /\ [][/\ (ret.op = "Append.loop" /\ ret'.op = "Append.loop") => ret'.n > ret.n
          /\ (ret.op = "ReadAt.app" /\ ret'.op = "ReadAt.loop") =>
                Len(ret'.bs) > Len(ret.bs)
          /\ ret'.op = "Append.loop" => ret'.n < Len(ret'.bs)
          /\ ret'.op \in {"ReadAt.loop", "ReadAt.app"} => Len(ret'.bs) < ret'.n
       ]_vars
    /\ (ret.op \in {"Append.loop", "ReadAt.loop", "ReadAt.app"})
          ~> (ret.op \in {"Append", "ReadAt"})

\* C16 witness: a ReadAt that has read the end of one segment and goes on with
\* the next one
ReadCrossesSegments ==
    /\ ret.op = "ReadAt.loop" /\ Len(ret.bs) > 0
    /\ (ret.off + Len(ret.bs)) % fileSize = 0

\* C17 (as claimed): a Close of an open log, when no Close of a handle has
\* failed, invokes Close on no handle twice, and when it returns no error no
\* handle is left open
CloseClosesEachHandleOnce ==
    (ret.op = "Close" /\ ~ret.wasClosed /\ ~hist.faulty) =>
        /\ \A i, j \in 1..Len(ret.closeCalls) :
              ret.closeCalls[i] = ret.closeCalls[j] => i = j
        /\ ret.err = OK => OpenHandles(handles) = {}

\* C18 (as claimed): a ReadAt changes neither the tail, Size(), Offset() nor
\* the set of segment files: it creates no file
ReadAtIsObserver ==
    [][ret'.op = "ReadAt" =>
        /\ currAppID' = currAppID
        /\ handles'[currApp'].seg = handles[currApp].seg
        /\ handles'[currApp'].off = handles[currApp].off
        /\ Len(disk'[currAppID'].data) = Len(disk[currAppID].data)
        /\ \A s \in SegIds : disk'[s].exists = disk[s].exists
    ]_vars

\* C19 (as claimed): while the log is not closed and no Close of a handle has
\* failed, every open segment handle is the tail or is held by the cache
NoOrphanedHandles ==
    (~closed /\ ~hist.faulty) => LeakedHandles(handles, appendables, currApp) = {}

\* C20 (as claimed): when only Append and SetOffset (and calls that change
\* nothing) were called, no Close of a handle failed and Close returned no
\* error, an Open of the directory has the tail id and the Size() the log had
\* right before the Close
ReopenKeepsTailAndSize ==
    [][(ret'.op = "Open" /\ closed /\ hist.clean /\ hist.writes /\ ~hist.faulty) =>
        /\ currAppID' = currAppID
        /\ currAppID' * fileSize' + Len(disk'[handles'[currApp'].seg].data)
              = currAppID * fileSize + Len(disk[handles[currApp].seg].data)
    ]_vars

====
